---- MODULE Spec2Model ----
(***************************************************************************)
(* Model of the query interpretation, relevance scoring and filter/rank    *)
(* pipeline of semantic_house_search.py (class SemanticHouseSearch).       *)
(*                                                                         *)
(* Strings are TLA+ strings; substring tests, lower() and upper() are      *)
(* computed character by character.  Scores are kept in tenths (the        *)
(* weights of the scorer are all multiples of 0.1), so 0.0 is 0 and 1.0    *)
(* is 10.  Prices are dollars, sizes square feet.  Python's None is the    *)
(* value None for numeric fields and the empty tuple for optional text.    *)
(***************************************************************************)
EXTENDS Integers, Sequences, FiniteSets, TLC

VARIABLES config, semantic_query, interpreted_filters, properties,
          pc, query_in, prop, result, extracted, log,
          ltype, endpoint, searches, returned, response, requests,
          config_file, merged_config

vars == <<config, semantic_query, interpreted_filters, properties,
          pc, query_in, prop, result, extracted, log,
          ltype, endpoint, searches, returned, response, requests,
          config_file, merged_config>>

(***************************************************************************)
(* Python values                                                           *)
(***************************************************************************)
None == -1

Truthy(v) == v # None /\ v # 0

NoText == <<>>

Text(s) == <<s>>

(***************************************************************************)
(* str.lower(), str.upper() and the `in` substring test                    *)
(***************************************************************************)
LowerChar(c) ==
    CASE c = "A" -> "a" [] c = "B" -> "b" [] c = "C" -> "c" [] c = "D" -> "d"
      [] c = "E" -> "e" [] c = "F" -> "f" [] c = "G" -> "g" [] c = "H" -> "h"
      [] c = "I" -> "i" [] c = "J" -> "j" [] c = "K" -> "k" [] c = "L" -> "l"
      [] c = "M" -> "m" [] c = "N" -> "n" [] c = "O" -> "o" [] c = "P" -> "p"
      [] c = "Q" -> "q" [] c = "R" -> "r" [] c = "S" -> "s" [] c = "T" -> "t"
      [] c = "U" -> "u" [] c = "V" -> "v" [] c = "W" -> "w" [] c = "X" -> "x"
      [] c = "Y" -> "y" [] c = "Z" -> "z" [] OTHER -> c

UpperChar(c) ==
    CASE c = "a" -> "A" [] c = "b" -> "B" [] c = "c" -> "C" [] c = "d" -> "D"
      [] c = "e" -> "E" [] c = "f" -> "F" [] c = "g" -> "G" [] c = "h" -> "H"
      [] c = "i" -> "I" [] c = "j" -> "J" [] c = "k" -> "K" [] c = "l" -> "L"
      [] c = "m" -> "M" [] c = "n" -> "N" [] c = "o" -> "O" [] c = "p" -> "P"
      [] c = "q" -> "Q" [] c = "r" -> "R" [] c = "s" -> "S" [] c = "t" -> "T"
      [] c = "u" -> "U" [] c = "v" -> "V" [] c = "w" -> "W" [] c = "x" -> "X"
      [] c = "y" -> "Y" [] c = "z" -> "Z" [] OTHER -> c

\* Character by character, halving the string to keep the recursion shallow
RECURSIVE Lower(_)
Lower(s) ==
    IF Len(s) = 0 THEN ""
    ELSE IF Len(s) = 1 THEN LowerChar(s)
    ELSE LET half == Len(s) \div 2
         IN  Lower(SubSeq(s, 1, half)) \o Lower(SubSeq(s, half + 1, Len(s)))

RECURSIVE Upper(_)
Upper(s) ==
    IF Len(s) = 0 THEN ""
    ELSE IF Len(s) = 1 THEN UpperChar(s)
    ELSE LET half == Len(s) \div 2
         IN  Upper(SubSeq(s, 1, half)) \o Upper(SubSeq(s, half + 1, Len(s)))

\* Python's `k in s` for strings
Contains(s, k) ==
    \E i \in 1..(Len(s) - Len(k) + 1) : SubSeq(s, i, i + Len(k) - 1) = k

\* Python's any(k in s for k in ks)
ContainsAny(s, ks) == \E k \in ks : Contains(s, k)

(***************************************************************************)
(* interpret_semantic_query                                                *)
(***************************************************************************)
Categories ==
    {"home_types", "excluded_home_types", "preferences", "exclusions",
     "floor_preferences", "condition_preferences",
     "neighborhood_preferences", "neighborhood_exclusions"}

\* The semantic_mappings table, one triple <<phrase key, category, tags>>
\* per category entry of a mapping.
semantic_mappings ==
    { <<"no one living above", "home_types", {"TOWNHOUSE", "SINGLE_FAMILY"}>>,
      <<"no one living above", "preferences", {"top_floor_condo"}>>,
      <<"no one living above", "excluded_home_types",
            {"mid_floor_condo", "ground_floor_condo"}>>,
      <<"nobody above", "home_types", {"TOWNHOUSE", "SINGLE_FAMILY"}>>,
      <<"nobody above", "preferences", {"top_floor_condo"}>>,
      <<"top floor", "preferences", {"top_floor_condo"}>>,
      <<"penthouse", "preferences", {"top_floor_condo", "luxury"}>>,
      <<"not a fixer-upper", "condition_preferences",
            {"good_condition", "recently_renovated"}>>,
      <<"not a fixer-upper", "exclusions",
            {"needs_work", "fixer_upper", "handyman_special"}>>,
      <<"not fixer", "condition_preferences", {"good_condition"}>>,
      <<"not fixer", "exclusions", {"fixer_upper"}>>,
      <<"move-in ready", "condition_preferences",
            {"move_in_ready", "good_condition"}>>,
      <<"turnkey", "condition_preferences", {"turnkey", "move_in_ready"}>>,
      <<"private", "preferences", {"private", "quiet"}>>,
      <<"quiet", "preferences", {"quiet", "private"}>>,
      <<"peaceful", "preferences", {"quiet", "peaceful"}>>,
      <<"outdoor space", "preferences",
            {"outdoor_space", "patio", "deck", "garden"}>>,
      <<"garden", "preferences", {"garden", "outdoor_space"}>>,
      <<"patio", "preferences", {"patio", "outdoor_space"}>>,
      <<"deck", "preferences", {"deck", "outdoor_space"}>>,
      <<"parking", "preferences", {"parking", "garage"}>>,
      <<"garage", "preferences", {"garage", "parking"}>>,
      <<"view", "preferences", {"view", "scenic"}>>,
      <<"city view", "preferences", {"city_view", "view"}>>,
      <<"water view", "preferences", {"water_view", "view"}>>,
      <<"not edwardian", "exclusions",
            {"edwardian", "victorian", "old_architecture"}>>,
      <<"not super old", "exclusions", {"old_building", "historic", "vintage"}>>,
      <<"not creaky", "exclusions", {"old_flooring", "creaky", "worn"}>>,
      <<"not dusty", "exclusions", {"dusty", "old_interior", "outdated"}>>,
      <<"high ceilings", "preferences",
            {"high_ceilings", "modern_architecture", "open_feel"}>>,
      <<"natural light", "preferences", {"natural_light", "sunny", "bright"}>>,
      <<"kitchen natural light", "preferences",
            {"kitchen_light", "natural_light", "bright_kitchen"}>>,
      <<"alamo square", "neighborhood_preferences",
            {"alamo_square", "safe_area", "desirable"}>>,
      <<"cole valley", "neighborhood_preferences",
            {"cole_valley", "safe_area", "desirable"}>>,
      <<"nopa", "neighborhood_preferences", {"nopa", "safe_area", "desirable"}>>,
      <<"haight", "neighborhood_preferences",
            {"haight", "safe_area", "desirable"}>>,
      <<"hayes valley", "neighborhood_preferences",
            {"hayes_valley", "safe_area", "desirable"}>>,
      <<"tenderloin", "neighborhood_exclusions",
            {"tenderloin", "high_crime", "unsafe"}>>,
      <<"market st", "neighborhood_exclusions",
            {"market_street", "busy_street", "noisy"}>>,
      <<"downtown", "neighborhood_exclusions",
            {"downtown", "business_district", "noisy"}>>,
      <<"fidi", "neighborhood_exclusions",
            {"financial_district", "business_area", "noisy"}>>,
      <<"mission safe", "neighborhood_preferences",
            {"mission_safe", "quiet_mission", "peaceful_mission"}>>,
      <<"mission quiet", "neighborhood_preferences",
            {"mission_quiet", "peaceful_mission"}>>,
      <<"mission peaceful", "neighborhood_preferences",
            {"mission_peaceful", "quiet_mission"}>>,
      <<"not super quiet", "exclusions",
            {"too_quiet", "residential_only", "family_focused"}>>,
      <<"not residential", "exclusions",
            {"residential_only", "family_neighborhood", "suburban_feel"}>>,
      <<"not family friendly", "exclusions",
            {"family_focused", "kid_friendly", "suburban"}>>,
      <<"not suuuper quiet", "exclusions",
            {"too_quiet", "dead_quiet", "boring_area"}>> }

\* The phrase keys of the table
Concepts == { m[1] : m \in semantic_mappings }

\* `if concept in query_lower` of the mapping loop; a variant that tests the
\* query as typed (no lower-casing) precedes it.
ConceptMatchesRaw(concept, query) == Contains(query, concept)

\* A variant with precedence: of the keys found in the query, one that is
\* part of a longer key also found does not count.
ConceptMatchesLongestKey(concept, query) ==
    /\ Contains(Lower(query), concept)
    /\ ~\E longer \in Concepts :
           /\ longer # concept
           /\ Contains(longer, concept)
           /\ Contains(Lower(query), longer)

ConceptMatches(concept, query) == Contains(Lower(query), concept)

\* The dict returned for an empty (or None) query: no category at all.
EmptyFilters == [c \in {} |-> {}]

\* A variant that returns the initialised dict for an empty query.
InterpretEmptyAllCategories == [c \in Categories |-> {}]

InterpretEmpty == EmptyFilters

\* interpret_semantic_query(query); query is optional text.  The lists the
\* code builds are de-duplicated with list(set(...)), whose order is not
\* defined: each category is a set.
interpret_semantic_query(query) ==
    IF query = NoText \/ query = Text("") THEN InterpretEmpty
    ELSE LET matched == { k \in Concepts : ConceptMatches(k, query[1]) }
         IN  [c \in Categories |->
                UNION { m[3] : m \in { n \in semantic_mappings :
                                          n[2] = c /\ n[1] \in matched } }]

\* dict.get(key, []) on an interpreted-filters dict
Get(d, key) == IF key \in DOMAIN d THEN d[key] ELSE {}

(***************************************************************************)
(* calculate_semantic_score                                                *)
(***************************************************************************)
\* One entry of the scorer's fixed rule sequence: whether its condition
\* holds, its weight in tenths, its match label and its explanation.
Rule(fires, weight, label, explanation) ==
    [fires |-> fires, weight |-> weight, label |-> label,
     explanation |-> explanation]

\* A variant of the raw-text test that reacts to any mention of "above".
NoOneAbovePhraseLoose(query_lower) == Contains(query_lower, "above")

\* A variant that decides by the interpreted tags of the query instead of
\* its raw text.
NoOneAbovePhraseByTags(query_lower) ==
    "top_floor_condo"
        \in Get(interpret_semantic_query(Text(query_lower)), "preferences")

\* The test of the lower-cased raw query that guards the "No one above" rule
NoOneAbovePhrase(query_lower) ==
    \/ Contains(query_lower, "no one living above")
    \/ Contains(query_lower, "nobody above")

\* A variant of the second tier with `if` in place of `elif`.
HighFloorTierIndependent(top_hit, address) ==
    ContainsAny(address, {"4", "5", "6", "7", "8", "9"})

\* The `elif` tier of the elevated-unit rule: reached only when the
\* top-floor indicators did not match.
HighFloorTier(top_hit, address) ==
    /\ ~top_hit
    /\ ContainsAny(address, {"4", "5", "6", "7", "8", "9"})

\* The `if` blocks of calculate_semantic_score in source order, evaluated
\* for a listing whose fields have been read as the code reads them.
ScoreRules(filters, query, data) ==
    LET home_type   == Upper(data.home_type)
        address     == Lower(data.address)
        year_built  == data.year_built
        lot_size    == data.lot_size
        query_lower == Lower(query[1])
        prefs       == Get(filters, "preferences")
        excls       == Get(filters, "exclusions")
        top_floor   == /\ "top_floor_condo" \in prefs
                       /\ home_type = "CONDO"
        top_hit     == ContainsAny(address, {"top", "penthouse", "roof", "terrace"})
        good_cond   == "good_condition" \in Get(filters, "condition_preferences")
    IN  << Rule(/\ Get(filters, "home_types") # {}
                /\ home_type \in { Upper(ht) : ht \in Get(filters, "home_types") },
                3, "Home type: " \o home_type,
                "Matches preferred home type: " \o home_type),
           Rule(top_floor /\ top_hit,
                4, "Top floor unit",
                "Likely top floor condo - no one living above"),
           Rule(top_floor /\ HighFloorTier(top_hit, address),
                2, "High floor unit",
                "High floor condo - reduced noise from above"),
           Rule(/\ NoOneAbovePhrase(query_lower)
                /\ home_type \in {"TOWNHOUSE", "SINGLE_FAMILY"},
                5, "No one above", home_type \o " - no neighbors above"),
           Rule(good_cond /\ Truthy(year_built) /\ year_built > 2000,
                2, "Recent construction",
                "Built in " \o ToString(year_built) \o " - likely good condition"),
           Rule(/\ good_cond
                /\ ContainsAny(address, {"renovated", "updated", "modern"}),
                3, "Recently renovated", "Address suggests recent renovations"),
           Rule(/\ ("edwardian" \in excls \/ "victorian" \in excls)
                /\ ContainsAny(address,
                       {"edwardian", "victorian", "1900", "1910", "1920"}),
                -3, "Old architecture",
                "Edwardian/Victorian architecture detected"),
           Rule(/\ "old_building" \in excls
                /\ Truthy(year_built) /\ year_built < 1980,
                -2, "Older building",
                "Built in " \o ToString(year_built) \o " - older construction"),
           Rule(/\ "high_ceilings" \in prefs
                /\ ContainsAny(address,
                       {"modern", "contemporary", "loft", "converted"}),
                2, "Modern architecture",
                "Address suggests modern features like high ceilings"),
           Rule(/\ "natural_light" \in prefs
                /\ ContainsAny(address,
                       {"sunny", "bright", "south", "east", "west"}),
                2, "Natural light", "Address suggests good natural light"),
           Rule(/\ Get(filters, "neighborhood_preferences") # {}
                /\ ContainsAny(address,
                       {"alamo", "cole", "nopa", "haight", "hayes"}),
                3, "Desirable neighborhood", "Located in preferred neighborhood"),
           Rule(/\ Get(filters, "neighborhood_exclusions") # {}
                /\ ContainsAny(address,
                       {"tenderloin", "market", "downtown", "financial"}),
                -4, "Less desirable area", "Located in area to avoid"),
           Rule(/\ prefs \cap {"outdoor_space", "patio", "deck", "garden"} # {}
                /\ Truthy(lot_size) /\ lot_size > 2000,
                2, "Outdoor space",
                "Large lot (" \o ToString(lot_size) \o " sqft) - likely outdoor space"),
           Rule(/\ ("parking" \in prefs \/ "garage" \in prefs)
                /\ ContainsAny(address, {"garage", "parking", "driveway"}),
                2, "Parking available", "Address suggests parking/garage"),
           Rule(/\ ("too_quiet" \in excls \/ "residential_only" \in excls)
                /\ ContainsAny(address,
                       {"residential", "quiet", "family", "suburban"}),
                -2, "Too quiet/residential",
                "Area may be too quiet/residential") >>

\* A variant that cuts the total off at 0 and at 1.0 after every rule.
RECURSIVE RunningTotalClamped(_, _)
RunningTotalClamped(rules, n) ==
    IF n = 0 THEN 0
    ELSE LET t == RunningTotalClamped(rules, n - 1)
                     + (IF rules[n].fires THEN rules[n].weight ELSE 0)
         IN  IF t < 0 THEN 0 ELSE IF t > 10 THEN 10 ELSE t

\* score += weight over the rules that fire, in order
RECURSIVE RunningTotal(_, _)
RunningTotal(rules, n) ==
    IF n = 0 THEN 0
    ELSE RunningTotal(rules, n - 1)
           + (IF rules[n].fires THEN rules[n].weight ELSE 0)

Max(a, b) == IF a >= b THEN a ELSE b

Min(a, b) == IF a <= b THEN a ELSE b

\* A variant of the normalisation that only cuts off at the top.
NormalizeUpperOnly(score) == Min(score, 10)

\* score = max(0.0, min(score, 1.0))
Normalize(score) == Max(0, Min(score, 10))

\* A variant that reports the rules that fire last rule first.
FiredLastFirst(rules) ==
    LET fired == SelectSeq(rules, LAMBDA r : r.fires)
    IN  [i \in 1..Len(fired) |-> fired[Len(fired) + 1 - i]]

\* The rules that fire, in evaluation order
Fired(rules) == SelectSeq(rules, LAMBDA r : r.fires)

Labels(rules) == [i \in 1..Len(rules) |-> rules[i].label]

Explanations(rules) == [i \in 1..Len(rules) |-> rules[i].explanation]

ScoreResult(score, matches, explanations, raised) ==
    [score |-> score, matches |-> matches, explanations |-> explanations,
     raised |-> raised]

\* calculate_semantic_score(property_data) under the searcher's
\* interpreted_filters and semantic_query.  raised marks the AttributeError
\* of None.lower() when filters are set and no query text is.
calculate_semantic_score(filters, query, data) ==
    IF DOMAIN filters = {} THEN ScoreResult(0, <<>>, <<>>, FALSE)
    ELSE IF query = NoText THEN ScoreResult(0, <<>>, <<>>, TRUE)
    ELSE LET rules == ScoreRules(filters, query, data)
             fired == Fired(rules)
         IN  ScoreResult(Normalize(RunningTotal(rules, Len(rules))),
                         Labels(fired), Explanations(fired), FALSE)

(***************************************************************************)
(* Configuration: DEFAULT_CONFIG and the parts of it the pipeline reads    *)
(***************************************************************************)
DefaultFilters ==
    [k \in {"min_price", "max_price", "min_sqft", "max_sqft"} |->
        CASE k = "min_price" -> 1000000
          [] k = "max_price" -> 2000000
          [] k = "min_sqft"  -> 1000
          [] k = "max_sqft"  -> 2000]

\* config["filters"] bounds, config["filters"]["include_sold"] and
\* config["semantic"]; min_semantic_score is in tenths.
Config(filters, include_sold, enable, min_score) ==
    [filters |-> filters, include_sold |-> include_sold,
     enable_semantic_search |-> enable, min_semantic_score |-> min_score]

DEFAULT_CONFIG == Config(DefaultFilters, FALSE, TRUE, 3)

\* float('inf'): above every price and size of the model
Infinity == 2147483647

\* filters.get(key, default)
FilterGet(filters, key, default) ==
    IF key \in DOMAIN filters THEN filters[key] ELSE default

(***************************************************************************)
(* extract_property_data and passes_criteria                               *)
(***************************************************************************)
\* Python's round(a / b, 0) for positive integers: nearest, ties to even
RoundDiv(a, b) ==
    LET q == a \div b
        r == a % b
    IN  IF 2 * r < b THEN q
        ELSE IF 2 * r > b THEN q + 1
        ELSE IF q % 2 = 0 THEN q ELSE q + 1

\* The data dict built from one raw listing, before scoring: the hdpData
\* branch reads homeInfo, the other branch the listing's own price and area
\* and leaves home_type, year_built and lot_size at their initial values.
BuildData(listing, listing_type) ==
    LET price == listing.price
        sqft  == listing.sqft
    IN  [zpid |-> listing.zpid,
         listing_type |-> listing_type,
         address |-> listing.address,
         price |-> price,
         sqft |-> sqft,
         home_type |-> IF listing.hdp THEN listing.home_type ELSE "Unknown",
         year_built |-> IF listing.hdp THEN listing.year_built ELSE None,
         lot_size |-> IF listing.hdp THEN listing.lot_size ELSE None,
         price_per_sqft |-> IF Truthy(price) /\ Truthy(sqft) /\ sqft > 0
                            THEN RoundDiv(price, sqft) ELSE None,
         semantic_score |-> 0,
         semantic_matches |-> <<>>,
         semantic_explanations |-> <<>>]

\* Price criteria of passes_criteria
PassesPrice(filters, data) ==
    Truthy(data.price) =>
        /\ ~(data.price < FilterGet(filters, "min_price", 0))
        /\ ~(data.price > FilterGet(filters, "max_price", Infinity))

\* Square footage criteria of passes_criteria
PassesSqft(filters, data) ==
    Truthy(data.sqft) =>
        /\ ~(data.sqft < FilterGet(filters, "min_sqft", 0))
        /\ ~(data.sqft > FilterGet(filters, "max_sqft", Infinity))

\* A variant of the threshold test that also drops a score equal to it.
PassesScoreStrict(cfg, data) ==
    cfg.enable_semantic_search =>
        ~(data.semantic_score <= cfg.min_semantic_score)

\* A variant of the threshold test that ignores the enable flag.
PassesScoreAlways(cfg, data) ==
    ~(data.semantic_score < cfg.min_semantic_score)

\* A variant that lets a listing without any score (0.0) through.
PassesScoreUnlessZero(cfg, data) ==
    (cfg.enable_semantic_search /\ data.semantic_score # 0) =>
        ~(data.semantic_score < cfg.min_semantic_score)

\* Semantic score threshold of passes_criteria
PassesScore(cfg, data) ==
    cfg.enable_semantic_search =>
        ~(data.semantic_score < cfg.min_semantic_score)

passes_criteria(cfg, data) ==
    /\ PassesPrice(cfg.filters, data)
    /\ PassesSqft(cfg.filters, data)
    /\ PassesScore(cfg, data)

\* What one call of extract_property_data does: the data dict it built,
\* whether it called the scorer, and whether it returned the dict (kept)
\* or None.  An exception inside the call is caught and gives None.
Extraction(data, scorer_called, kept) ==
    [data |-> data, scored |-> scorer_called, kept |-> kept]

extract_property_data(cfg, filters, query, listing, listing_type) ==
    LET data == BuildData(listing, listing_type)
    IN  IF cfg.enable_semantic_search
        THEN LET s == calculate_semantic_score(filters, query, data)
                 scored_data == [data EXCEPT !.semantic_score = s.score,
                                             !.semantic_matches = s.matches,
                                             !.semantic_explanations = s.explanations]
             IN  IF s.raised THEN Extraction(data, TRUE, FALSE)
                 ELSE Extraction(scored_data, TRUE,
                                 passes_criteria(cfg, scored_data))
        ELSE Extraction(data, FALSE, passes_criteria(cfg, data))

(***************************************************************************)
(* Inputs                                                                  *)
(***************************************************************************)
MaxFrags == 2

\* A raw listing of the upstream response; hdp says whether it carries
\* hdpData.homeInfo.
Listing(zpid, address, hdp, price, sqft, home_type, year_built, lot_size) ==
    [zpid |-> zpid, address |-> address, hdp |-> hdp, price |-> price,
     sqft |-> sqft, home_type |-> home_type, year_built |-> year_built,
     lot_size |-> lot_size]

DemoQuery == "no one living above me, NOT a fixer-upper"

DemoAddress == "123 Main St, San Francisco, CA"

DemoListing ==
    Listing(1, DemoAddress, TRUE, 1500000, 1200, "SINGLE_FAMILY", 2015, 3000)

Fragments ==
    {"no one living above me", "NOT a fixer-upper", "Nobody Above",
     "not fixer", "City View", "Not Super Quiet", "kitchen natural light",
     "PARKING", "walkable", "nopa", "outdoor space", "Tenderloin"}

RECURSIVE JoinFrags(_)
JoinFrags(fs) ==
    IF Len(fs) = 0 THEN ""
    ELSE IF Len(fs) = 1 THEN fs[1]
    ELSE fs[1] \o ", " \o JoinFrags(Tail(fs))

\* Query texts made of at most MaxFrags fragments
Queries ==
    { JoinFrags(fs) : fs \in UNION { [1..n -> Fragments] : n \in 0..MaxFrags } }

ScoreQueries ==
    {DemoQuery,
     "walkable, near cafes",
     "no neighbors above me",
     "Nobody above, top floor, move-in ready, high ceilings, natural light, hayes valley, garden, parking",
     "not edwardian, not super old, downtown, not super quiet",
     "not fixer, not edwardian, not super old, penthouse, cole valley, tenderloin, deck, garage, not residential, natural light, high ceilings"}

ScoreAddresses ==
    {DemoAddress,
     "456 Oak Ave UNIT 5, San Francisco, CA",
     "Penthouse 2, 10 Market St",
     "12 Haight St Top Floor, renovated modern loft, sunny, garage",
     "1910 Victorian, 9 Quiet Residential Ln, Tenderloin",
     "5 Market St Top Floor, renovated loft, sunny",
     "N/A"}

ScoreListings ==
    { Listing(1, a, TRUE, 1500000, 1200, ht, y, lot) :
        a \in ScoreAddresses,
        ht \in {"SINGLE_FAMILY", "TOWNHOUSE", "CONDO", "condo", "MULTI_FAMILY"},
        y \in {None, 1975, 1980, 2000, 2001, 2015},
        lot \in {None, 0, 2000, 3000} }
    \cup { Listing(1, a, FALSE, 1500000, 1200, "Unknown", None, None) :
             a \in ScoreAddresses }

FilterListings ==
    { Listing(1, DemoAddress, TRUE, p, s, "SINGLE_FAMILY", 2015, 3000) :
        p \in {None, 0, 999999, 1000000, 1500000, 2000000, 2000001},
        s \in {None, 0, 999, 1000, 2000, 2001} }

\* The bounds of DEFAULT_CONFIG with some keys left out, and two
\* configurations whose minimum exceeds the maximum
FilterBounds ==
    { [k \in ks |-> DefaultFilters[k]] :
        ks \in { DOMAIN DefaultFilters, {},
                 DOMAIN DefaultFilters \ {"min_price"},
                 DOMAIN DefaultFilters \ {"max_price"},
                 DOMAIN DefaultFilters \ {"min_sqft"},
                 DOMAIN DefaultFilters \ {"max_sqft"} } }
    \cup { [DefaultFilters EXCEPT !["min_price"] = 2000000,
                                  !["max_price"] = 1000000],
           [DefaultFilters EXCEPT !["min_sqft"] = 2000,
                                  !["max_sqft"] = 1000] }

FilterConfigs ==
    { Config(b, FALSE, e, m) :
        b \in FilterBounds, e \in BOOLEAN, m \in {0, 2, 3, 10} }

FilterQueries == {NoText, Text(DemoQuery), Text("not fixer")}

(***************************************************************************)
(* Scoring harness: one searcher, one query, one listing, as in            *)
(* demo_semantic_scoring, followed by extract_property_data on the         *)
(* same listing.                                                           *)
(***************************************************************************)
InitScoring ==
    /\ \/ /\ query_in \in {NoText} \cup { Text(q) : q \in Queries }
          /\ prop = DemoListing
          /\ config = DEFAULT_CONFIG
       \/ /\ query_in \in { Text(q) : q \in ScoreQueries }
          /\ prop \in ScoreListings
          /\ config = DEFAULT_CONFIG
       \/ /\ query_in \in FilterQueries
          /\ prop \in FilterListings
          /\ config \in FilterConfigs
    /\ semantic_query = NoText
    /\ interpreted_filters = EmptyFilters
    /\ properties = <<>>
    /\ pc = "start"
    /\ result = <<>>
    /\ extracted = <<>>
    /\ log = <<>>
    /\ ltype = "for_sale"
    /\ endpoint = 1
    /\ searches = 0
    /\ returned = "none"
    /\ response = <<>>
    /\ requests = <<>>
    /\ config_file = <<>>
    /\ merged_config = <<>>

\* searcher.semantic_query = query
\* searcher.interpreted_filters = searcher.interpret_semantic_query(query)
DemoInterpret ==
    /\ pc = "start"
    /\ semantic_query' = query_in
    /\ interpreted_filters' = interpret_semantic_query(query_in)
    /\ pc' = "interpreted"
    /\ UNCHANGED <<config, properties, query_in, prop, result, extracted, log,
                   ltype, endpoint, searches, returned,
                   response, requests,
                   config_file, merged_config>>

\* score, matches, explanations = searcher.calculate_semantic_score(prop)
DemoScore ==
    /\ pc = "interpreted"
    /\ result' = <<calculate_semantic_score(interpreted_filters, semantic_query,
                                            BuildData(prop, "for_sale"))>>
    /\ pc' = "scored"
    /\ UNCHANGED <<config, semantic_query, interpreted_filters, properties,
                   query_in, prop, extracted, log, ltype, endpoint, searches,
                   returned,
                   response, requests,
                   config_file, merged_config>>

\* prop_data = self.extract_property_data(listing, listing_type)
DemoExtract ==
    /\ pc = "scored"
    /\ extracted' = <<extract_property_data(config, interpreted_filters,
                                            semantic_query, prop, "for_sale")>>
    /\ pc' = "extracted"
    /\ UNCHANGED <<config, semantic_query, interpreted_filters, properties,
                   query_in, prop, result, log, ltype, endpoint, searches,
                   returned,
                   response, requests,
                   config_file, merged_config>>

NextScoring == DemoInterpret \/ DemoScore \/ DemoExtract

SpecScoring == InitScoring /\ [][NextScoring]_vars

(***************************************************************************)
(* parse_properties and rank_by_semantic_relevance                         *)
(***************************************************************************)
\* "Combine and deduplicate": the first result of every truthy zpid
RECURSIVE Deduplicate(_, _)
Deduplicate(results, seen_zpids) ==
    IF results = <<>> THEN <<>>
    ELSE LET zpid == Head(results).zpid
         IN  IF Truthy(zpid) /\ zpid \notin seen_zpids
             THEN <<Head(results)>>
                    \o Deduplicate(Tail(results), seen_zpids \cup {zpid})
             ELSE Deduplicate(Tail(results), seen_zpids)

\* The extract_property_data calls of parse_properties, one per unique
\* result, in order
Extractions(cfg, filters, query, results, listing_type) ==
    LET unique_results == Deduplicate(results, {})
    IN  [i \in 1..Len(unique_results) |->
            extract_property_data(cfg, filters, query, unique_results[i],
                                  listing_type)]

\* A variant that stops at the first call that returned None.
KeptDataUntilFirstDrop(extractions) ==
    LET dropped == {i \in 1..Len(extractions) : ~extractions[i].kept}
        n == IF dropped = {} THEN Len(extractions)
             ELSE (CHOOSE i \in dropped : \A j \in dropped : i <= j) - 1
    IN  [i \in 1..n |-> extractions[i].data]

\* properties.append(prop_data) for every call that returned a dict
KeptData(extractions) ==
    LET kept == SelectSeq(extractions, LAMBDA e : e.kept)
    IN  [i \in 1..Len(kept) |-> kept[i].data]

parse_properties(cfg, filters, query, results, listing_type) ==
    KeptData(Extractions(cfg, filters, query, results, listing_type))

\* A variant of the sort key that holds the score alone.
KeyLessScoreOnly(a, b) == a.semantic_score < b.semantic_score

\* Tuple comparison of the sort key (semantic_score, price_per_sqft)
KeyLess(a, b) ==
    \/ a.semantic_score < b.semantic_score
    \/ /\ a.semantic_score = b.semantic_score
       /\ a.price_per_sqft < b.price_per_sqft

\* Comparing the keys of a and b raises TypeError: the scores are equal and
\* exactly one price_per_sqft is None.  Every comparison sort has to compare
\* such a pair if the list holds one.
CompareRaises(a, b) ==
    /\ a.semantic_score = b.semantic_score
    /\ a.price_per_sqft # b.price_per_sqft
    /\ (a.price_per_sqft = None \/ b.price_per_sqft = None)

SortRaises(props) ==
    \E i, j \in 1..Len(props) : CompareRaises(props[i], props[j])

\* A variant that inserts x before the elements whose key equals x's.
RECURSIVE InsertDescBeforeEquals(_, _)
InsertDescBeforeEquals(sorted, x) ==
    IF sorted = <<>> THEN <<x>>
    ELSE IF ~KeyLess(x, Head(sorted)) THEN <<x>> \o sorted
    ELSE <<Head(sorted)>> \o InsertDescBeforeEquals(Tail(sorted), x)

\* Insert x behind every element whose key is not less than x's
RECURSIVE InsertDesc(_, _)
InsertDesc(sorted, x) ==
    IF sorted = <<>> THEN <<x>>
    ELSE IF KeyLess(Head(sorted), x) THEN <<x>> \o sorted
    ELSE <<Head(sorted)>> \o InsertDesc(Tail(sorted), x)

\* sorted(props, key=..., reverse=True): descending and stable
RECURSIVE SortedDesc(_, _)
SortedDesc(props, n) ==
    IF n = 0 THEN <<>>
    ELSE InsertDesc(SortedDesc(props, n - 1), props[n])

rank_by_semantic_relevance(props) == SortedDesc(props, Len(props))

(***************************************************************************)
(* The search pipeline: search_properties on one searcher                  *)
(***************************************************************************)
MaxSearches == 2

MaxListings == 2

PipelineListings ==
    { DemoListing,
      Listing(2, "456 Oak Ave UNIT 5, San Francisco, CA", TRUE,
              1200000, None, "CONDO", 1995, 500),
      Listing(3, "77 Hayes St", TRUE, None, 1500, "TOWNHOUSE", 2005, None),
      Listing(4, "9 Pine St", TRUE, 2500000, 1200, "SINGLE_FAMILY", 1970, 2500),
      Listing(5, "15 Elm St", FALSE, 1800000, 1200, "Unknown", None, None),
      Listing(6, "21 Elm St", FALSE, 1500000, 1200, "Unknown", None, None) }

MaxSoldListings == 1

\* map_results + list_results of one response: at most MaxListings results
\* to a for_sale search, at most MaxSoldListings to a sold search
Responses(listing_type) ==
    UNION { [1..n -> PipelineListings] :
              n \in 0..(IF listing_type = "sold" THEN MaxSoldListings
                                                ELSE MaxListings) }

PipelineQueries == {NoText, Text(""), Text(DemoQuery), Text("walkable")}

PipelineConfigs ==
    { DEFAULT_CONFIG,
      Config(DefaultFilters, FALSE, TRUE, 0),
      Config(DefaultFilters, FALSE, FALSE, 3),
      Config([DefaultFilters EXCEPT !["min_price"] = 2000000,
                                    !["max_price"] = 1000000], FALSE, FALSE, 3),
      Config([k \in {"min_price", "max_price", "min_sqft"} |-> DefaultFilters[k]],
             FALSE, TRUE, 0),
      Config(DefaultFilters, TRUE, TRUE, 3) }

\* What one pass of the endpoint loop meets: the status of the first PUT,
\* of the retry after a 404, or an exception; body is the response JSON's
\* result list when a 200 arrives.
Outcomes(listing_type) ==
    { [kind |-> k, body |-> r] :
        k \in {"200", "404_200"}, r \in Responses(listing_type) }
    \cup { [kind |-> k, body |-> <<>>] : k \in {"404_other", "other", "exception"} }

Init ==
    /\ config \in PipelineConfigs
    /\ semantic_query = NoText
    /\ interpreted_filters = EmptyFilters
    /\ properties = <<>>
    /\ pc = "idle"
    /\ query_in = NoText
    /\ prop = DemoListing
    /\ result = <<>>
    /\ extracted = <<>>
    /\ log = <<>>
    /\ ltype = "for_sale"
    /\ endpoint = 1
    /\ searches = 0
    /\ returned = "none"
    /\ response = <<>>
    /\ requests = <<>>
    /\ config_file = <<>>
    /\ merged_config = <<>>

\* search_properties(semantic_query), up to the first fetch
SearchProperties(query) ==
    /\ pc = "idle"
    /\ searches < MaxSearches
    /\ IF query # NoText /\ query # Text("")
       THEN /\ semantic_query' = query
            /\ interpreted_filters' = interpret_semantic_query(query)
       ELSE UNCHANGED <<semantic_query, interpreted_filters>>
    /\ query_in' = query
    /\ searches' = searches + 1
    /\ pc' = "fetch"
    /\ ltype' = "for_sale"
    /\ endpoint' = 1
    /\ log' = <<>>
    /\ returned' = "none"
    /\ UNCHANGED <<config, properties, prop, result, extracted,
                   response, requests,
                   config_file, merged_config>>

\* fetch_properties formats all four bounds before it tries an endpoint: a
\* bound missing from the configuration is a KeyError that ends the search.
FetchRaise ==
    /\ pc = "fetch"
    /\ DOMAIN config.filters # DOMAIN DefaultFilters
    /\ returned' = "raised"
    /\ pc' = "idle"
    /\ UNCHANGED <<config, semantic_query, interpreted_filters, properties,
                   query_in, prop, result, extracted, log, ltype, endpoint,
                   searches,
                   response, requests,
                   config_file, merged_config>>

\* A variant that assigns the fetched listings instead of extending the
\* list with them.
AfterFetchAssign(all_properties) ==
    /\ properties' = all_properties
    /\ IF ltype = "for_sale" /\ config.include_sold
       THEN /\ ltype' = "sold"
            /\ endpoint' = 1
            /\ pc' = "fetch"
       ELSE /\ pc' = "rank"
            /\ UNCHANGED <<ltype, endpoint>>

\* The fetch of ltype is over: extend self.properties, then fetch sold
\* listings if configured, else rank.
AfterFetch(all_properties) ==
    /\ properties' = properties \o all_properties
    /\ IF ltype = "for_sale" /\ config.include_sold
       THEN /\ ltype' = "sold"
            /\ endpoint' = 1
            /\ pc' = "fetch"
       ELSE /\ pc' = "rank"
            /\ UNCHANGED <<ltype, endpoint>>

\* One pass of the endpoint loop of fetch_properties
FetchEndpoint(outcome) ==
    /\ pc = "fetch"
    /\ DOMAIN config.filters = DOMAIN DefaultFilters
    /\ LET ok == outcome.kind \in {"200", "404_200"}
           extractions == Extractions(config, interpreted_filters,
                                      semantic_query, outcome.body, ltype)
           found == KeptData(extractions)
       IN  /\ log' = IF ok THEN extractions ELSE log
           /\ IF ok /\ found # <<>> THEN AfterFetch(found)
              ELSE IF endpoint = 2 THEN AfterFetch(<<>>)
              ELSE /\ endpoint' = 2
                   /\ UNCHANGED <<properties, ltype, pc>>
    /\ UNCHANGED <<config, semantic_query, interpreted_filters, query_in,
                   prop, result, extracted, searches, returned,
                   response, requests,
                   config_file, merged_config>>

\* A variant that ranks whether or not scoring is enabled.
RankAlways ==
    /\ pc = "rank"
    /\ LET ranks == properties # <<>>
       IN  IF ranks /\ SortRaises(properties)
           THEN /\ returned' = "raised"
                /\ UNCHANGED properties
           ELSE /\ properties' = IF ranks
                                 THEN rank_by_semantic_relevance(properties)
                                 ELSE properties
                /\ returned' = IF Len(properties) > 0 THEN "true" ELSE "false"
    /\ pc' = "idle"
    /\ UNCHANGED <<config, semantic_query, interpreted_filters, query_in,
                   prop, result, extracted, log, ltype, endpoint, searches,
                   response, requests,
                   config_file, merged_config>>

\* The rest of search_properties: rank if scoring is enabled and something
\* was found, and return whether there are properties.
Rank ==
    /\ pc = "rank"
    /\ LET ranks == config.enable_semantic_search /\ properties # <<>>
       IN  IF ranks /\ SortRaises(properties)
           THEN /\ returned' = "raised"
                /\ UNCHANGED properties
           ELSE /\ properties' = IF ranks
                                 THEN rank_by_semantic_relevance(properties)
                                 ELSE properties
                /\ returned' = IF Len(properties) > 0 THEN "true" ELSE "false"
    /\ pc' = "idle"
    /\ UNCHANGED <<config, semantic_query, interpreted_filters, query_in,
                   prop, result, extracted, log, ltype, endpoint, searches,
                   response, requests,
                   config_file, merged_config>>

Next ==
    \/ \E query \in PipelineQueries : SearchProperties(query)
    \/ FetchRaise
    \/ \E outcome \in Outcomes(ltype) : FetchEndpoint(outcome)
    \/ Rank

Spec == Init /\ [][Next]_vars

(***************************************************************************)
(* Properties of the scoring harness (SpecScoring)                         *)
(***************************************************************************)
\* Every substring the scorer looks for in an address
ScorerKeywords ==
    {"top", "penthouse", "roof", "terrace", "4", "5", "6", "7", "8", "9",
     "renovated", "updated", "modern", "edwardian", "victorian", "1900",
     "1910", "1920", "contemporary", "loft", "converted", "sunny", "bright",
     "south", "east", "west", "alamo", "cole", "nopa", "haight", "hayes",
     "tenderloin", "market", "downtown", "financial", "garage", "parking",
     "driveway", "residential", "quiet", "family", "suburban"}

Scored == pc \in {"scored", "extracted"}

HasLabel(r, label) == \E i \in 1..Len(r.matches) : r.matches[i] = label

AllCategoriesEmpty(filters) == \A c \in Categories : Get(filters, c) = {}

\* C1: whatever mix of bonuses and penalties fired, the score returned by
\* calculate_semantic_score, and the score extract_property_data stores,
\* lies in [0.0, 1.0] (0..10 tenths).
ScoreWithinUnitInterval ==
    /\ Scored => result[1].score \in 0..10
    /\ pc = "extracted" => extracted[1].data.semantic_score \in 0..10

\* C1 witness: penalties outweigh everything and the result is cut off at 0.
PenaltiesClampedAtZero ==
    /\ Scored
    /\ result[1].score = 0
    /\ HasLabel(result[1], "Old architecture")
    /\ HasLabel(result[1], "Less desirable area")

\* The scenario of C2: the demo query against a detached home built in 2015
\* whose address holds none of the scorer's keywords.
DemoScenario ==
    /\ Scored
    /\ query_in = Text(DemoQuery)
    /\ prop.hdp
    /\ prop.home_type = "SINGLE_FAMILY"
    /\ prop.year_built = 2015
    /\ ~ContainsAny(Lower(prop.address), ScorerKeywords)

\* C2 as claimed: exactly "No one above" (+0.5) and "Recent construction"
\* (+0.2) fire, the score is 0.7 and two labels are returned.
DemoScenarioScoresSevenTenths ==
    DemoScenario =>
        /\ result[1].score = 7
        /\ result[1].matches = <<"No one above", "Recent construction">>

\* C2 amended: the home-type preference (+0.3) fires as well, because "no one
\* living above" puts SINGLE_FAMILY among the preferred home types; three
\* labels are returned and the score is 1.0.
DemoScenarioScoresOne ==
    DemoScenario =>
        /\ result[1].score = 10
        /\ result[1].matches = <<"Home type: SINGLE_FAMILY", "No one above",
                                 "Recent construction">>
        /\ Len(result[1].explanations) = 3

\* C2 witness: the demo scenario has been scored.
DemoScenarioScored ==
    /\ DemoScenario
    /\ prop.address = DemoAddress
    /\ result[1].score = 10

\* C3: in every category the interpreted tags are exactly the union of the
\* tags of the mappings whose phrase key occurs in the lower-cased query:
\* every tag of a matching mapping is there, and every tag there comes from
\* a matching mapping.  Categories are read as the code reads them, with
\* dict.get(category, []).
InterpretationIsUnionOfMatchingRules ==
    pc = "interpreted" =>
        LET q == IF query_in = NoText THEN "" ELSE Lower(query_in[1])
        IN  /\ DOMAIN interpreted_filters \subseteq Categories
            /\ \A m \in semantic_mappings :
                  Contains(q, m[1]) => m[3] \subseteq Get(interpreted_filters, m[2])
            /\ \A c \in Categories :
                  \A t \in Get(interpreted_filters, c) :
                     \E m \in semantic_mappings :
                        m[2] = c /\ t \in m[3] /\ Contains(q, m[1])

\* C3 witness: a query typed in capitals has matched two rules.
MixedCaseQueryInterpreted ==
    /\ pc = "interpreted"
    /\ query_in = Text("NOT a fixer-upper, City View")
    /\ "city_view" \in Get(interpreted_filters, "preferences")
    /\ "good_condition" \in Get(interpreted_filters, "condition_preferences")

\* C4 as claimed: for the empty query every category is present and empty.
EmptyQueryYieldsEveryCategoryEmpty ==
    (pc = "interpreted" /\ query_in = Text("")) =>
        /\ DOMAIN interpreted_filters = Categories
        /\ \A c \in DOMAIN interpreted_filters : interpreted_filters[c] = {}

\* C4 amended: for the empty query (and for None) the result is the empty
\* dict, with no category at all; only a non-empty query gives the dict of
\* all eight categories, each empty when no rule matches.
EmptyQueryYieldsNoCategory ==
    pc = "interpreted" =>
        IF query_in \in {NoText, Text("")}
        THEN DOMAIN interpreted_filters = {}
        ELSE /\ DOMAIN interpreted_filters = Categories
             /\ (\A k \in Concepts : ~Contains(Lower(query_in[1]), k))
                   => \A c \in Categories : interpreted_filters[c] = {}

\* C4 witness: the empty query has been interpreted.
EmptyQueryInterpreted ==
    /\ pc = "interpreted"
    /\ query_in = Text("")
    /\ interpreted_filters = EmptyFilters

\* C5: scoring any listing against an interpretation whose categories are
\* all empty gives score 0.0, no label and no explanation, without raising.
EmptyInterpretationScoresZero ==
    (Scored /\ AllCategoriesEmpty(interpreted_filters)) =>
        /\ result[1] = ScoreResult(0, <<>>, <<>>, FALSE)
        /\ pc = "extracted" =>
              /\ extracted[1].data.semantic_score = 0
              /\ extracted[1].data.semantic_matches = <<>>
              /\ extracted[1].data.semantic_explanations = <<>>

\* C5 witness: a non-empty query that matches no rule, scored against a
\* townhouse whose address is full of scorer keywords.
UnmatchedQueryScored ==
    /\ Scored
    /\ query_in = Text("no neighbors above me")
    /\ DOMAIN interpreted_filters = Categories
    /\ AllCategoriesEmpty(interpreted_filters)
    /\ prop.home_type = "TOWNHOUSE"
    /\ ContainsAny(Lower(prop.address), {"haight", "renovated", "garage"})

\* min <= price <= max and min <= sqft <= max, an unconfigured minimum being
\* 0 and an unconfigured maximum infinity
WithinBounds(filters, data) ==
    /\ FilterGet(filters, "min_price", 0) <= data.price
    /\ data.price <= FilterGet(filters, "max_price", Infinity)
    /\ FilterGet(filters, "min_sqft", 0) <= data.sqft
    /\ data.sqft <= FilterGet(filters, "max_sqft", Infinity)

\* The score threshold does not drop the listing
NotDroppedOnScore(cfg, data) ==
    \/ ~cfg.enable_semantic_search
    \/ data.semantic_score >= cfg.min_semantic_score

\* C6: a listing whose price and size are both known passes the hard filter
\* if and only if both lie within the inclusive bounds.
KnownListingPassesIffWithinBounds ==
    pc = "extracted" =>
        LET e == extracted[1]
        IN  (e.data.price # None /\ e.data.sqft # None
                /\ NotDroppedOnScore(config, e.data))
               => (e.kept <=> WithinBounds(config.filters, e.data))

\* C9: with scoring enabled, a listing that passes the price and size tests
\* is dropped if and only if its score is strictly below
\* min_semantic_score.
DroppedIffScoreBelowMinimum ==
    pc = "extracted" =>
        LET e == extracted[1]
        IN  (/\ config.enable_semantic_search
             /\ PassesPrice(config.filters, e.data)
             /\ PassesSqft(config.filters, e.data))
               => (~e.kept <=> e.data.semantic_score < config.min_semantic_score)

\* C9 witness: a listing whose score equals a positive minimum has been kept.
ScoreEqualToMinimumKept ==
    /\ pc = "extracted"
    /\ config.enable_semantic_search
    /\ config.min_semantic_score > 0
    /\ extracted[1].data.semantic_score = config.min_semantic_score
    /\ extracted[1].kept

(***************************************************************************)
(* Properties of the search pipeline (Spec)                                *)
(***************************************************************************)
\* The search has returned normally
Returned == pc = "idle" /\ returned \in {"true", "false"}

\* The last n elements of a sequence
Suffix(seq, n) == SubSeq(seq, Len(seq) - n + 1, Len(seq))

\* C7: a listing without a size is excluded whenever a minimum size is
\* configured, and the scorer is never called on it.
MissingSizeExcludedBeforeScoring ==
    \A i \in 1..Len(log) :
        (log[i].data.sqft = None /\ "min_sqft" \in DOMAIN config.filters)
            => (~log[i].kept /\ ~log[i].scored)

\* C8: a listing without a price is excluded whenever price bounds are
\* configured, and the search that met it does not fail.
MissingPriceExcludedRunSucceeds ==
    LET bounded == {"min_price", "max_price"} \cap DOMAIN config.filters # {}
        missing == {i \in 1..Len(log) : log[i].data.price = None}
    IN  bounded =>
            /\ \A i \in missing : ~log[i].kept
            /\ missing # {} => returned # "raised"

\* C10: with scoring disabled every listing in the results carries score
\* 0.0, no label and no explanation; the scorer is not called; whatever
\* min_semantic_score is, a listing is kept if and only if it passes the
\* price and size tests; and the search returns exactly the kept listings,
\* in order, behind those of earlier searches.
DisabledScoringKeepsHardFilterPasses ==
    ~config.enable_semantic_search =>
        /\ \A i \in 1..Len(properties) :
              /\ properties[i].semantic_score = 0
              /\ properties[i].semantic_matches = <<>>
              /\ properties[i].semantic_explanations = <<>>
        /\ \A i \in 1..Len(log) :
              /\ ~log[i].scored
              /\ log[i].kept <=> /\ PassesPrice(config.filters, log[i].data)
                                 /\ PassesSqft(config.filters, log[i].data)
        /\ (Returned /\ ~config.include_sold) =>
              /\ Len(KeptData(log)) <= Len(properties)
              /\ Suffix(properties, Len(KeptData(log))) = KeptData(log)
              /\ searches = 1 => properties = KeptData(log)

\* C10 witness: a search with scoring disabled and a minimum score of 0.3
\* has returned a listing of score 0.0 and dropped one outside the bounds.
DisabledSearchReturnedUnscored ==
    /\ Returned
    /\ returned = "true"
    /\ ~config.enable_semantic_search
    /\ config.min_semantic_score > 0
    /\ \E i \in 1..Len(log) : log[i].kept /\ Truthy(log[i].data.price)
    /\ \E i \in 1..Len(log) : ~log[i].kept
    /\ properties = KeptData(log)

\* Element i of a ranked list may stand before element j: its score is
\* higher, or the scores are equal and its price per square foot is not lower
\* (both known, or both missing).
MayPrecede(a, b) ==
    \/ a.semantic_score > b.semantic_score
    \/ /\ a.semantic_score = b.semantic_score
       /\ \/ a.price_per_sqft = None /\ b.price_per_sqft = None
          \/ /\ a.price_per_sqft # None
             /\ b.price_per_sqft # None
             /\ a.price_per_sqft >= b.price_per_sqft

\* C11: with scoring enabled, the list a search returns is in non-increasing
\* order of score and, among equal scores, in non-increasing order of price
\* per square foot.
ReturnedListIsRanked ==
    (Returned /\ config.enable_semantic_search) =>
        \A i, j \in 1..Len(properties) :
            i < j => MayPrecede(properties[i], properties[j])

\* C11 witness: two listings of equal score were found in ascending order of
\* price per square foot and are returned with the higher one first.
TieReorderedByPricePerSqft ==
    /\ Returned
    /\ config.enable_semantic_search
    /\ Len(properties) = 2
    /\ KeptData(log) = <<properties[2], properties[1]>>
    /\ properties[1].semantic_score = properties[2].semantic_score
    /\ properties[1].price_per_sqft = 1500
    /\ properties[2].price_per_sqft = 1250

\* The elements of seq whose sort key equals that of x, in order
WithKeyOf(seq, x) ==
    SelectSeq(seq, LAMBDA e : /\ e.semantic_score = x.semantic_score
                              /\ e.price_per_sqft = x.price_per_sqft)

Zpids(seq) == [i \in 1..Len(seq) |-> seq[i].zpid]

\* C12: ranking is stable: the listings of equal score and equal price per
\* square foot stand in the ranked list in the order they had before it.
RankingIsStable ==
    [][(pc = "rank" /\ config.enable_semantic_search /\ returned' # "raised")
          => \A i \in 1..Len(properties) :
                WithKeyOf(properties', properties[i])
                    = WithKeyOf(properties, properties[i])]_vars

\* C12 witness: listings 6 and 1 tie on score and price per square foot and
\* were found in that order; a later search put listing 5 in front of them
\* and left the two in their order.
TiedListingsKeepInputOrder ==
    /\ Returned
    /\ config.enable_semantic_search
    /\ Zpids(properties) = <<5, 6, 1>>
    /\ Zpids(KeptData(log)) = <<5>>
    /\ \A i \in 1..3 : properties[i].semantic_score = 0
    /\ properties[2].price_per_sqft = properties[3].price_per_sqft

\* A search has ended, by returning or by raising
SearchEnded == pc = "idle" /\ searches > 0

\* All four bounds are configured, so that fetch_properties can print them
BoundsConfigured == DOMAIN config.filters = DOMAIN DefaultFilters

\* A missing price per square foot read as 0
OrZero(v) == IF v = None THEN 0 ELSE v

\* C13: a listing without a price per square foot is ranked as if the value
\* were 0: ranking completes, and among equal scores the listing stands
\* behind every listing with a positive price per square foot.
MissingPricePerSqftRanksAsZero ==
    (/\ SearchEnded
     /\ BoundsConfigured
     /\ config.enable_semantic_search
     /\ \E i \in 1..Len(properties) : properties[i].price_per_sqft = None)
        => /\ returned = "true"
           /\ \A i, j \in 1..Len(properties) :
                 i < j =>
                    \/ properties[i].semantic_score > properties[j].semantic_score
                    \/ /\ properties[i].semantic_score = properties[j].semantic_score
                       /\ OrZero(properties[i].price_per_sqft)
                             >= OrZero(properties[j].price_per_sqft)

\* C14: no search raises because an optional field of a listing is absent:
\* with the configuration complete and every listing priced, scoring,
\* filtering and ranking complete whichever of size, price per square foot,
\* construction year and lot size are missing.
AbsentOptionalFieldNeverRaises ==
    (/\ BoundsConfigured
     /\ \A i \in 1..Len(properties) : properties[i].price # None)
        => returned # "raised"

\* C15: a search made with an empty or absent query scores every listing it
\* processes 0.0 with no match label, whatever searches the instance made
\* before.
EmptyQuerySearchScoresZero ==
    query_in \in {NoText, Text("")} =>
        \A i \in 1..Len(log) :
            /\ log[i].data.semantic_score = 0
            /\ log[i].data.semantic_matches = <<>>

\* A configured minimum exceeds its maximum
Misconfigured(filters) ==
    \/ FilterGet(filters, "min_price", 0) > FilterGet(filters, "max_price", Infinity)
    \/ FilterGet(filters, "min_sqft", 0) > FilterGet(filters, "max_sqft", Infinity)

\* C16: with a minimum above its maximum no listing passes, so the result
\* list stays empty whatever the responses hold, listings without a price
\* or a size included.
MisconfiguredBoundsGiveEmptyResult ==
    Misconfigured(config.filters) =>
        /\ properties = <<>>
        /\ \A i \in 1..Len(log) : ~log[i].kept

(***************************************************************************)
(* parse_properties on a response and on the response without one record   *)
(***************************************************************************)
MaxResults == 3

\* Records of a response: the demo home as a list result, the same home
\* (same zpid) as a map result without hdpData carrying a price above the
\* maximum, and three other homes.
ParseRecords ==
    { DemoListing,
      Listing(1, DemoAddress, FALSE, 2100000, 1200, "Unknown", None, None),
      Listing(2, "456 Oak Ave UNIT 5, San Francisco, CA", TRUE,
              1200000, None, "CONDO", 1995, 500),
      Listing(4, "9 Pine St", TRUE, 2500000, 1200, "SINGLE_FAMILY", 1970, 2500),
      Listing(6, "21 Elm St", FALSE, 1500000, 1200, "Unknown", None, None) }

\* map_results + list_results
ParseResponses == UNION { [1..n -> ParseRecords] : n \in 0..MaxResults }

ParseConfigs ==
    { DEFAULT_CONFIG,
      Config(DefaultFilters, FALSE, TRUE, 0),
      Config(DefaultFilters, FALSE, FALSE, 3) }

\* The record fails a price or size bound
FailsBound(cfg, listing) ==
    LET data == BuildData(listing, "for_sale")
    IN  ~(PassesPrice(cfg.filters, data) /\ PassesSqft(cfg.filters, data))

Remove(seq, k) == SubSeq(seq, 1, k - 1) \o SubSeq(seq, k + 1, Len(seq))

InitParse ==
    /\ config \in ParseConfigs
    /\ query_in \in {NoText, Text(DemoQuery)}
    /\ response \in ParseResponses
    /\ semantic_query = NoText
    /\ interpreted_filters = EmptyFilters
    /\ properties = <<>>
    /\ pc = "start"
    /\ prop = DemoListing
    /\ result = <<>>
    /\ extracted = <<>>
    /\ log = <<>>
    /\ ltype = "for_sale"
    /\ endpoint = 1
    /\ searches = 0
    /\ returned = "none"
    /\ requests = <<>>
    /\ config_file = <<>>
    /\ merged_config = <<>>

\* properties = self.parse_properties(data, listing_type)
ParseProperties ==
    /\ pc = "interpreted"
    /\ log' = Extractions(config, interpreted_filters, semantic_query,
                          response, ltype)
    /\ properties' = KeptData(log')
    /\ pc' = "parsed"
    /\ UNCHANGED <<config, semantic_query, interpreted_filters, query_in,
                   prop, result, extracted, ltype, endpoint, searches,
                   returned, response, requests,
                   config_file, merged_config>>

\* parse_properties again, on the response without its k-th record, which
\* fails a bound
ParseWithout(k) ==
    /\ pc = "parsed"
    /\ FailsBound(config, response[k])
    /\ result' = <<[removed |-> k,
                    properties |->
                        parse_properties(config, interpreted_filters,
                                         semantic_query, Remove(response, k),
                                         ltype)]>>
    /\ pc' = "reparsed"
    /\ UNCHANGED <<config, semantic_query, interpreted_filters, properties,
                   query_in, prop, extracted, log, ltype, endpoint, searches,
                   returned, response, requests,
                   config_file, merged_config>>

NextParse ==
    \/ DemoInterpret
    \/ ParseProperties
    \/ \E k \in 1..Len(response) : ParseWithout(k)

SpecParse == InitParse /\ [][NextParse]_vars

(***************************************************************************)
(* Properties of parse_properties (SpecParse)                              *)
(***************************************************************************)
\* a is b with some elements left out
RECURSIVE IsSubSeq(_, _)
IsSubSeq(a, b) ==
    IF a = <<>> THEN TRUE
    ELSE IF b = <<>> THEN FALSE
    ELSE IF Head(a) = Head(b) THEN IsSubSeq(Tail(a), Tail(b))
    ELSE IsSubSeq(a, Tail(b))

\* C19 as claimed: removing a record that fails a bound leaves the surviving
\* listings unchanged.
RemovingFailedListingKeepsSurvivors ==
    pc = "reparsed" => result[1].properties = properties

\* C19 amended: removing a record that fails a bound removes no surviving
\* listing, and leaves the surviving listings unchanged unless another
\* record of the response carries the removed record's zpid (a later one,
\* suppressed by the deduplication until then, is processed in its place).
RemovingFailedListingRemovesNoSurvivor ==
    pc = "reparsed" =>
        LET k == result[1].removed
            shared == \E j \in 1..Len(response) :
                         j # k /\ response[j].zpid = response[k].zpid
        IN  /\ IsSubSeq(properties, result[1].properties)
            /\ ~shared => result[1].properties = properties

\* C19 witness: a record above the maximum price was removed from in front
\* of and between two passing listings, which survive as before.
FailedListingRemovedSurvivorsSame ==
    /\ pc = "reparsed"
    /\ Zpids(response) = <<6, 4, 1>>
    /\ result[1].removed = 2
    /\ Zpids(properties) = <<6, 1>>
    /\ result[1].properties = properties

(***************************************************************************)
(* api_search: two requests, each with a SemanticHouseSearch of its own     *)
(***************************************************************************)
Requests == {1, 2}

ApiQueries == {"", DemoQuery}

\* min_price, max_price, min_sqft, max_sqft of a request
ApiFilters ==
    { DefaultFilters, [DefaultFilters EXCEPT !["max_price"] = 3000000] }

ApiListings ==
    { DemoListing,
      Listing(3, "77 Hayes St", TRUE, None, 1500, "TOWNHOUSE", 2005, None),
      Listing(4, "9 Pine St", TRUE, 2500000, 1200, "SINGLE_FAMILY", 1970, 2500) }

\* The results Zillow returns to the request's search
ApiResponses == UNION { [1..n -> ApiListings] : n \in 0..MaxListings }

\* The configuration api_search builds from the request's parameters
ApiConfig(filters) == Config(filters, FALSE, TRUE, 0)

\* A request before api_search has run: its JSON parameters, the response
\* its search will get, and no searcher yet
NewRequest(query, filters, body) ==
    [query |-> query, filters |-> filters, body |-> body, step |-> "new",
     config |-> DEFAULT_CONFIG, semantic_query |-> NoText,
     interpreted_filters |-> EmptyFilters, properties |-> <<>>,
     returned |-> "none"]

\* A variant in which the configuration is one object shared by all
\* searchers.
SetConfigShared(reqs, i, cfg) ==
    [j \in DOMAIN reqs |-> [reqs[j] EXCEPT !.config = cfg]]

\* self.config = config, on the searcher of request i
SetConfig(reqs, i, cfg) == [reqs EXCEPT ![i].config = cfg]

InitApi ==
    /\ requests \in [Requests ->
                        { NewRequest(q, f, b) :
                            q \in ApiQueries, f \in ApiFilters,
                            b \in ApiResponses }]
    /\ config = DEFAULT_CONFIG
    /\ semantic_query = NoText
    /\ interpreted_filters = EmptyFilters
    /\ properties = <<>>
    /\ pc = "idle"
    /\ query_in = NoText
    /\ prop = DemoListing
    /\ result = <<>>
    /\ extracted = <<>>
    /\ log = <<>>
    /\ ltype = "for_sale"
    /\ endpoint = 1
    /\ searches = 0
    /\ returned = "none"
    /\ response = <<>>
    /\ config_file = <<>>
    /\ merged_config = <<>>

ApiUnchanged ==
    UNCHANGED <<config, semantic_query, interpreted_filters, properties, pc,
                query_in, prop, result, extracted, log, ltype, endpoint,
                searches, returned, response, config_file, merged_config>>

\* config = DEFAULT_CONFIG.copy(); config.update({...});
\* searcher = SemanticHouseSearch(config)
ApiCreate(i) ==
    /\ requests[i].step = "new"
    /\ requests' = [SetConfig(requests, i, ApiConfig(requests[i].filters))
                       EXCEPT ![i].step = "created",
                              ![i].semantic_query = NoText,
                              ![i].interpreted_filters = EmptyFilters,
                              ![i].properties = <<>>]
    /\ ApiUnchanged

\* search_properties(query): interpret the query if there is one
ApiInterpret(i) ==
    LET r == requests[i]
    IN  /\ r.step = "created"
        /\ requests' =
              [requests EXCEPT
                 ![i].step = "interpreted",
                 ![i].semantic_query =
                     IF r.query # "" THEN Text(r.query) ELSE r.semantic_query,
                 ![i].interpreted_filters =
                     IF r.query # ""
                     THEN interpret_semantic_query(Text(r.query))
                     ELSE r.interpreted_filters]
        /\ ApiUnchanged

\* search_properties: fetch_properties("for_sale") parses the response and
\* the result extends self.properties
ApiFetch(i) ==
    LET r == requests[i]
    IN  /\ r.step = "interpreted"
        /\ requests' =
              [requests EXCEPT
                 ![i].step = "fetched",
                 ![i].properties =
                     r.properties
                       \o parse_properties(r.config, r.interpreted_filters,
                                           r.semantic_query, r.body,
                                           "for_sale")]
        /\ ApiUnchanged

\* search_properties: rank and return
ApiRank(i) ==
    LET r == requests[i]
        ranks == r.config.enable_semantic_search /\ r.properties # <<>>
    IN  /\ r.step = "fetched"
        /\ requests' =
              [requests EXCEPT
                 ![i].step = "done",
                 ![i].properties =
                     IF ranks /\ ~SortRaises(r.properties)
                     THEN rank_by_semantic_relevance(r.properties)
                     ELSE r.properties,
                 ![i].returned =
                     IF ranks /\ SortRaises(r.properties) THEN "raised"
                     ELSE IF Len(r.properties) > 0 THEN "true" ELSE "false"]
        /\ ApiUnchanged

NextApi ==
    \E i \in Requests :
        ApiCreate(i) \/ ApiInterpret(i) \/ ApiFetch(i) \/ ApiRank(i)

SpecApi == InitApi /\ [][NextApi]_vars

(***************************************************************************)
(* Properties of concurrent requests (SpecApi)                             *)
(***************************************************************************)
\* What the search of request r produces when it runs alone, from its own
\* parameters and response
AloneFilters(r) ==
    IF r.query # "" THEN interpret_semantic_query(Text(r.query))
    ELSE EmptyFilters

AloneFound(r) ==
    parse_properties(ApiConfig(r.filters), AloneFilters(r),
                     IF r.query # "" THEN Text(r.query) ELSE NoText,
                     r.body, "for_sale")

\* The ranked list and the value returned, or the unranked list and
\* "raised" when the sort raises
AloneOutcome(r) ==
    LET found == AloneFound(r)
        raises == found # <<>> /\ SortRaises(found)
    IN  [properties |-> IF found = <<>> \/ raises THEN found
                        ELSE rank_by_semantic_relevance(found),
         returned |-> IF raises THEN "raised"
                      ELSE IF found # <<>> THEN "true" ELSE "false"]

\* C20: under every interleaving of two requests, each searcher's
\* configuration, interpreted query, scored listings and returned list are
\* those its search produces when run alone.
ConcurrentSearchesAreIsolated ==
    \A i \in Requests :
        LET r == requests[i]
        IN  /\ r.step # "new" => r.config = ApiConfig(r.filters)
            /\ r.step \in {"interpreted", "fetched", "done"} =>
                  r.interpreted_filters = AloneFilters(r)
            /\ r.step = "fetched" => r.properties = AloneFound(r)
            /\ r.step = "done" =>
                  LET alone == AloneOutcome(r)
                  IN  /\ r.properties = alone.properties
                      /\ r.returned = alone.returned

\* C20 witness: both searches are under way with different queries and
\* bounds on the same response; the first has scored the demo home 1.0 and
\* dropped the home above its maximum price, the second has finished with
\* both homes at score 0.0.
TwoSearchesInterleaved ==
    /\ requests[1].step = "fetched"
    /\ requests[2].step = "done"
    /\ requests[1].query = DemoQuery
    /\ requests[2].query = ""
    /\ requests[1].filters # requests[2].filters
    /\ Zpids(requests[1].body) = <<1, 4>>
    /\ requests[2].body = requests[1].body
    /\ Zpids(requests[1].properties) = <<1>>
    /\ requests[1].properties[1].semantic_score = 10
    /\ Zpids(requests[2].properties) = <<4, 1>>
    /\ requests[2].properties[1].semantic_score = 0
    /\ requests[2].returned = "true"

\* C21 as claimed: with scoring disabled the returned list is ordered by
\* price per square foot, descending.
DisabledResultOrderedByPricePerSqft ==
    (Returned /\ ~config.enable_semantic_search) =>
        \A i, j \in 1..Len(properties) :
            (/\ i < j
             /\ properties[i].price_per_sqft # None
             /\ properties[j].price_per_sqft # None)
                => properties[i].price_per_sqft >= properties[j].price_per_sqft

\* C21 amended: ranking is applied only when scoring is enabled; with
\* scoring disabled the search returns the list as the fetches left it, in
\* the order the listings were found.
DisabledSearchKeepsFoundOrder ==
    [][(pc = "rank" /\ ~config.enable_semantic_search)
          => /\ properties' = properties
             /\ returned' = IF properties # <<>> THEN "true" ELSE "false"]_vars

\* C21 witness: with scoring disabled a search has returned two listings in
\* the order found, the lower price per square foot first.
DisabledSearchReturnedUnranked ==
    /\ Returned
    /\ ~config.enable_semantic_search
    /\ Len(properties) = 2
    /\ properties = KeptData(log)
    /\ properties[1].price_per_sqft = 1250
    /\ properties[2].price_per_sqft = 1500

(***************************************************************************)
(* Order of the match labels and explanations (SpecScoring)                *)
(***************************************************************************)
\* The scoring rules in the order the specification lists them: for each,
\* the text its label starts with and a text its explanation contains
RuleOrderAsListed ==
    << <<"Home type: ", "Matches preferred home type: ">>,
       <<"No one above", " - no neighbors above">>,
       <<"Top floor unit", "Likely top floor condo">>,
       <<"High floor unit", "High floor condo">>,
       <<"Recent construction", "likely good condition">>,
       <<"Recently renovated", "recent renovations">>,
       <<"Old architecture", "Edwardian/Victorian architecture">>,
       <<"Older building", "older construction">>,
       <<"Modern architecture", "modern features">>,
       <<"Natural light", "good natural light">>,
       <<"Desirable neighborhood", "preferred neighborhood">>,
       <<"Less desirable area", "area to avoid">>,
       <<"Outdoor space", "likely outdoor space">>,
       <<"Parking available", "parking/garage">>,
       <<"Too quiet/residential", "too quiet/residential">> >>

\* The places in the listed order of the i-th label of r together with
\* the i-th explanation
ListedPlaces(r, i) ==
    { k \in 1..Len(RuleOrderAsListed) :
        /\ Len(r.matches[i]) >= Len(RuleOrderAsListed[k][1])
        /\ SubSeq(r.matches[i], 1, Len(RuleOrderAsListed[k][1]))
               = RuleOrderAsListed[k][1]
        /\ Contains(r.explanations[i], RuleOrderAsListed[k][2]) }

\* C22: the match labels, and the explanations pairwise with them, appear
\* in the order in which the scoring rules are listed: home type, "no one
\* above", elevated unit, recent construction, renovated, old
\* architecture, older building, modern architecture, natural light,
\* desirable neighborhood, less desirable area, outdoor space, parking,
\* too quiet/residential.
LabelsInListedOrder ==
    Scored =>
        LET r == result[1]
        IN  /\ Len(r.matches) = Len(r.explanations)
            /\ \A i \in 1..Len(r.matches) : ListedPlaces(r, i) # {}
            /\ \A i, j \in 1..Len(r.matches) :
                   i < j => \A a \in ListedPlaces(r, i) :
                                \A b \in ListedPlaces(r, j) : a < b

\* C22 witness: a townhouse scored with a home-type label, then "No one
\* above", then at least two later labels.
NoOneAboveLabelledAmongOthers ==
    /\ Scored
    /\ Len(result[1].matches) >= 4
    /\ result[1].matches[1] = "Home type: TOWNHOUSE"
    /\ result[1].matches[2] = "No one above"

(***************************************************************************)
(* The "no one above" rule (SpecScoring)                                   *)
(***************************************************************************)
\* The raw query text of the searcher, lower-cased ("" when none is set)
RawQueryLower == IF semantic_query = NoText THEN "" ELSE Lower(semantic_query[1])

RawQueryHasNoOneAbove ==
    \/ Contains(RawQueryLower, "no one living above")
    \/ Contains(RawQueryLower, "nobody above")

\* C23: the "No one above" contribution fires if and only if the
\* lower-cased raw query contains "no one living above" or "nobody above"
\* and the listing's home type is TOWNHOUSE or SINGLE_FAMILY, whatever
\* tags the interpretation holds.
NoOneAboveDecidedByRawQuery ==
    Scored =>
        (HasLabel(result[1], "No one above")
            <=> /\ RawQueryHasNoOneAbove
                /\ Upper(BuildData(prop, "for_sale").home_type)
                       \in {"TOWNHOUSE", "SINGLE_FAMILY"})

\* C23 witness: a single-family listing scored under a query that says
\* "Nobody above" in mixed case: the rule has fired on the raw text.
NoOneAboveFiredOnRawQuery ==
    /\ Scored
    /\ semantic_query # NoText
    /\ Contains(semantic_query[1], "Nobody above")
    /\ prop.home_type = "SINGLE_FAMILY"
    /\ HasLabel(result[1], "No one above")

(***************************************************************************)
(* The clamp of the final total (SpecScoring)                              *)
(***************************************************************************)
\* The contribution, in tenths, that the specification gives for each label
ListedWeights ==
    << <<"Home type: ", 3>>, <<"No one above", 5>>, <<"Top floor unit", 4>>,
       <<"High floor unit", 2>>, <<"Recent construction", 2>>,
       <<"Recently renovated", 3>>, <<"Old architecture", -3>>,
       <<"Older building", -2>>, <<"Modern architecture", 2>>,
       <<"Natural light", 2>>, <<"Desirable neighborhood", 3>>,
       <<"Less desirable area", -4>>, <<"Outdoor space", 2>>,
       <<"Parking available", 2>>, <<"Too quiet/residential", -2>> >>

ListedWeight(label) ==
    LET k == CHOOSE k \in 1..Len(ListedWeights) :
                 /\ Len(label) >= Len(ListedWeights[k][1])
                 /\ SubSeq(label, 1, Len(ListedWeights[k][1]))
                        = ListedWeights[k][1]
    IN  ListedWeights[k][2]

RECURSIVE SumOfWeights(_, _)
SumOfWeights(matches, sign) ==
    IF matches = <<>> THEN 0
    ELSE LET w == ListedWeight(Head(matches))
         IN  (IF w * sign > 0 THEN w ELSE 0) + SumOfWeights(Tail(matches), sign)

BonusTotal(r) == SumOfWeights(r.matches, 1)

PenaltyTotal(r) == SumOfWeights(r.matches, -1)

\* C24: the clamp is applied once, to the final total: the score is the
\* sum of all bonuses that fired plus all penalties that fired, cut off
\* at 0.0 below and at 1.0 above; no intermediate total is cut off.
ClampAppliedOnceToFinalTotal ==
    Scored =>
        LET r     == result[1]
            total == BonusTotal(r) + PenaltyTotal(r)
        IN  r.score = (IF total < 0 THEN 0 ELSE IF total > 10 THEN 10 ELSE total)

\* C24 witness: bonuses above 1.0 followed by a penalty as the last
\* contribution, and a score of 0.9: the penalty came off the true sum.
PenaltyTakenFromTrueSum ==
    /\ Scored
    /\ BonusTotal(result[1]) > 10
    /\ PenaltyTotal(result[1]) < 0
    /\ result[1].score = 9
    /\ ListedWeight(result[1].matches[Len(result[1].matches)]) < 0

(***************************************************************************)
(* Overlapping phrase keys (SpecScoring)                                   *)
(***************************************************************************)
\* C25: no precedence among phrase keys: when a key is part of a longer
\* key and the query contains the longer one, the tags of both mappings
\* are in the interpretation; "not super quiet" gives the preference
\* "quiet" together with the exclusion "too_quiet", and "city view" gives
\* the tags of both "view" and "city view".
OverlappingKeysBothContribute ==
    (pc = "interpreted" /\ query_in # NoText) =>
        LET q == Lower(query_in[1])
        IN  /\ \A short, long \in semantic_mappings :
                  (/\ short[1] # long[1]
                   /\ Contains(long[1], short[1])
                   /\ Contains(q, long[1]))
                      => /\ short[3] \subseteq Get(interpreted_filters, short[2])
                         /\ long[3] \subseteq Get(interpreted_filters, long[2])
            /\ Contains(q, "not super quiet")
                  => /\ "quiet" \in Get(interpreted_filters, "preferences")
                     /\ "too_quiet" \in Get(interpreted_filters, "exclusions")
            /\ Contains(q, "city view")
                  => {"view", "scenic", "city_view"}
                         \subseteq Get(interpreted_filters, "preferences")

\* C25 witness: a query saying "Not Super Quiet" has been interpreted as
\* both wanting quiet and excluding too quiet.
ContradictoryTagsInterpreted ==
    /\ pc = "interpreted"
    /\ query_in # NoText
    /\ Contains(query_in[1], "Not Super Quiet")
    /\ "quiet" \in Get(interpreted_filters, "preferences")
    /\ "too_quiet" \in Get(interpreted_filters, "exclusions")

(***************************************************************************)
(* The two tiers of the elevated-unit rule (SpecScoring)                   *)
(***************************************************************************)
\* The listing is a condo and the interpretation asks for a top-floor condo
ElevatedUnitApplies ==
    /\ "top_floor_condo" \in Get(interpreted_filters, "preferences")
    /\ BuildData(prop, "for_sale").home_type \in {"CONDO", "condo"}

AddressHasTopIndicator ==
    ContainsAny(Lower(BuildData(prop, "for_sale").address),
                {"top", "penthouse", "roof", "terrace"})

AddressHasFloorDigit ==
    ContainsAny(Lower(BuildData(prop, "for_sale").address),
                {"4", "5", "6", "7", "8", "9"})

\* C26: the elevated-unit rule contributes at most one tier: "Top floor
\* unit" whenever the address has a top-floor indicator, "High floor
\* unit" only when it has none and has a digit 4-9, and neither unless
\* the listing is a condo and the preferences contain top_floor_condo.
ElevatedUnitTiersExclusive ==
    Scored =>
        LET r == result[1]
        IN  /\ ~(HasLabel(r, "Top floor unit") /\ HasLabel(r, "High floor unit"))
            /\ HasLabel(r, "Top floor unit")
                  <=> (ElevatedUnitApplies /\ AddressHasTopIndicator)
            /\ HasLabel(r, "High floor unit")
                  <=> (/\ ElevatedUnitApplies
                       /\ ~AddressHasTopIndicator
                       /\ AddressHasFloorDigit)

\* C26 witness: a condo whose address has both a top-floor indicator and
\* a digit 4-9 has been given the top-floor tier alone.
TopFloorTierWinsOverFloorDigit ==
    /\ Scored
    /\ ElevatedUnitApplies
    /\ AddressHasTopIndicator
    /\ AddressHasFloorDigit
    /\ HasLabel(result[1], "Top floor unit")
    /\ ~HasLabel(result[1], "High floor unit")

(***************************************************************************)
(* load_config: a configuration file merged with DEFAULT_CONFIG            *)
(* (SpecConfig).  A dict is a function from its keys; numbers that the     *)
(* source writes with one decimal are kept in tenths.                      *)
(***************************************************************************)
\* DEFAULT_CONFIG with all its sections and keys
DefaultConfigSections ==
    [search_area |-> [center |-> "Mission District, San Francisco, CA",
                      radius_miles |-> 5,
                      auto_bounds |-> TRUE],
     filters |-> [min_price |-> 1000000, max_price |-> 2000000,
                  min_sqft |-> 1000, max_sqft |-> 2000,
                  home_types |-> <<"CONDO", "SINGLE_FAMILY", "TOWNHOUSE">>,
                  include_sold |-> FALSE,
                  max_sold_age_months |-> 6],
     semantic |-> [enable_semantic_search |-> TRUE,
                   semantic_weight |-> 3,
                   max_semantic_results |-> 50,
                   min_semantic_score |-> 3],
     output |-> [html_file |-> "semantic_search_results.html",
                 json_file |-> "semantic_search_data.json",
                 max_listings |-> 200]]

\* for key in ['search_area', 'filters', 'semantic', 'output']
Sections == {"search_area", "filters", "semantic", "output"}

\* The values a configuration file may give, section by section
FileOverrides ==
    [search_area |-> [radius_miles |-> 10],
     filters |-> [min_price |-> 1200000, max_price |-> 1750000,
                  min_sqft |-> 750],
     semantic |-> [enable_semantic_search |-> FALSE, min_semantic_score |-> 0],
     output |-> [max_listings |-> 50]]

Restrict(d, keys) == [k \in keys |-> d[k]]

\* What a file can hold for section s: any part of the overrides
SectionChoices(s) ==
    { Restrict(FileOverrides[s], keys) : keys \in SUBSET DOMAIN FileOverrides[s] }

\* The parsed contents of a configuration file: some sections, each with
\* some keys
ConfigFiles ==
    UNION { { f \in [present -> UNION { SectionChoices(s) : s \in present }] :
                \A s \in present : f[s] \in SectionChoices(s) } :
            present \in SUBSET Sections }

\* dict.update: d with every key of e set to e's value
DictUpdate(d, e) ==
    [k \in DOMAIN d \cup DOMAIN e |-> IF k \in DOMAIN e THEN e[k] ELSE d[k]]

\* The loop `for key in [...]: if key in config:
\* merged_config[key].update(config[key])` over the sections in keys
RECURSIVE UpdateSections(_, _, _)
UpdateSections(merged, file, keys) ==
    IF keys = {} THEN merged
    ELSE LET key  == CHOOSE k \in keys : TRUE
             next == IF key \in DOMAIN file
                     THEN [merged EXCEPT ![key] = DictUpdate(merged[key], file[key])]
                     ELSE merged
         IN  UpdateSections(next, file, keys \ {key})

\* load_config(config_path) for a file that was read (readable) or not:
\* DEFAULT_CONFIG.copy() is a shallow copy, merged_config.update(config)
\* puts the file's own section dicts in place of the default ones, and the
\* loop then updates each of them with itself.
load_config(file) ==
    IF ~file.readable THEN DefaultConfigSections
    ELSE UpdateSections(DictUpdate(DefaultConfigSections, file.content),
                        file.content, Sections)

InitConfig ==
    /\ config_file \in { [readable |-> TRUE, content |-> f] : f \in ConfigFiles }
                          \cup { [readable |-> FALSE, content |-> <<>>] }
    /\ merged_config = <<>>
    /\ pc = "start"
    /\ config = DEFAULT_CONFIG
    /\ semantic_query = NoText
    /\ interpreted_filters = EmptyFilters
    /\ properties = <<>>
    /\ query_in = NoText
    /\ prop = DemoListing
    /\ result = <<>>
    /\ extracted = <<>>
    /\ log = <<>>
    /\ ltype = "for_sale"
    /\ endpoint = 1
    /\ searches = 0
    /\ returned = "none"
    /\ response = <<>>
    /\ requests = <<>>

\* config = load_config(args.config)
LoadConfig ==
    /\ pc = "start"
    /\ merged_config' = load_config(config_file)
    /\ pc' = "loaded"
    /\ UNCHANGED <<config, semantic_query, interpreted_filters, properties,
                   query_in, prop, result, extracted, log, ltype, endpoint,
                   searches, returned, response, requests, config_file>>

NextConfig == LoadConfig

SpecConfig == InitConfig /\ [][NextConfig]_vars

\* C27: load_config merges at the nested level: in each of the four
\* sections every key of DEFAULT_CONFIG is present in the returned
\* configuration, with the file's value when the file gives the key and
\* the default value when the file's section omits it.
LoadConfigMergesNested ==
    (pc = "loaded" /\ config_file.readable) =>
        \A s \in Sections :
            \A k \in DOMAIN DefaultConfigSections[s] :
                /\ k \in DOMAIN merged_config[s]
                /\ merged_config[s][k] =
                       IF s \in DOMAIN config_file.content
                          /\ k \in DOMAIN config_file.content[s]
                       THEN config_file.content[s][k]
                       ELSE DefaultConfigSections[s][k]

(***************************************************************************)
(* The result list across calls on one searcher (Spec)                     *)
(***************************************************************************)
\* How many times x occurs in list
Occurrences(x, list) == Cardinality({ i \in 1..Len(list) : list[i] = x })

\* C28: search_properties only appends to the result list: no step of any
\* call removes a listing, so every listing of an earlier call is still
\* there after a later call and the length never decreases.
ResultListOnlyGrows ==
    [][/\ Len(properties') >= Len(properties)
       /\ \A i \in 1..Len(properties) :
             Occurrences(properties[i], properties')
                 >= Occurrences(properties[i], properties)]_vars

\* C28 witness: after the second call the list holds a listing twice,
\* once from each call.
SecondCallAppendedToFirst ==
    /\ Returned
    /\ searches = 2
    /\ \E i, j \in 1..Len(properties) :
          i < j /\ properties[i] = properties[j]

(***************************************************************************)
(* A first search whose query matches no rule (Spec)                       *)
(***************************************************************************)
\* The query of the current search is empty, absent, or matches no rule
QueryMatchesNothing == AllCategoriesEmpty(interpret_semantic_query(query_in))

FetchStepFromOneEndpoint ==
    \/ /\ endpoint = 1
       /\ endpoint' = 2
       /\ pc' = "fetch"
       /\ ltype' = ltype
       /\ properties' = properties
    \/ /\ pc' = "rank" \/ ltype' # ltype
       /\ \/ /\ KeptData(log') # <<>>
             /\ properties' = properties \o KeptData(log')
          \/ /\ endpoint = 2
             /\ properties' = properties

\* C30: fetch_properties tries the endpoints in order and stops at the
\* first that yields listings, so that what it returns comes from one
\* endpoint; anything else at an endpoint makes it go on to the next; and
\* it never raises: when no endpoint yields listings it returns an empty
\* list.
FetchReturnsWithoutRaising ==
    [][pc = "fetch" => /\ returned' # "raised"
                       /\ FetchStepFromOneEndpoint]_vars

====
